---- MODULE Spec2Model ----
(***************************************************************************)
(* A model of the Stratosphere lead engine: the ingestion path              *)
(* StratosphereEngine._process_lead + EnrichmentPipeline.process_lead, the *)
(* batch generator LeadBatchGenerator.generate_unique_leads, the run       *)
(* controller StratosphereEngine.run / _run_collection_phase / stop and    *)
(* the HTTP handlers trigger_pipeline, stop_pipeline and analyze_lead.     *)
(*                                                                         *)
(* Strings are sequences of tokens.  A token is a piece of text that the   *)
(* string operations of the code treat as a unit here: "@", "/", " ",      *)
(* "https:", "www.", "WWW.", "twitter.com", a name in some letter case     *)
(* ("Foo", "FOO", "foo"), a suffix (".io").  Python's None is Null; the    *)
(* empty string is <<>>; both are falsy.                                   *)
(***************************************************************************)
EXTENDS Integers, Sequences, FiniteSets, TLC

Null == <<"NULL">>

Falsy(s) == s = Null \/ s = <<>>
Truthy(s) == ~Falsy(s)

\* str.lower() on one token
LowerTok(t) ==
  CASE t \in {"Foo", "FOO"} -> "foo"
    [] t \in {"Acme", "ACME"} -> "acme"
    [] t = "Bar" -> "bar"
    [] t = "WWW." -> "www."
    [] OTHER -> t

\* str.lower()
Lower(s) == [i \in 1..Len(s) |-> LowerTok(s[i])]

\* str.replace(tok, "") : every occurrence of the token is removed
Remove(s, tok) == SelectSeq(s, LAMBDA t : t # tok)

\* str.strip() : leading and trailing blanks are removed
RECURSIVE LStrip(_)
LStrip(s) == IF s # <<>> /\ Head(s) = " " THEN LStrip(Tail(s)) ELSE s

RECURSIVE RStrip(_)
RStrip(s) ==
  IF s # <<>> /\ s[Len(s)] = " " THEN RStrip(SubSeq(s, 1, Len(s) - 1)) ELSE s

Strip(s) == RStrip(LStrip(s))

\* s.split("/")[-1] : what follows the last "/"
RECURSIVE LastSegment(_)
LastSegment(s) ==
  IF \E i \in 1..Len(s) : s[i] = "/" THEN LastSegment(Tail(s)) ELSE s

\* (host + "/") in s, for host "twitter.com" or "x.com"
HasProfilePrefix(s, host) ==
  \E i \in 1..(Len(s) - 1) : s[i] = host /\ s[i + 1] = "/"

HttpToks == {"http:", "https:"}

\* The tokens whose text holds "http": the schemes, and a name such as "httpbin"
HttpTexts == HttpToks \cup {"httpbin"}

\* "http" in s
ContainsHttp(s) == \E i \in 1..Len(s) : s[i] \in HttpTexts

\* s.startswith("http")
StartsWithHttp(s) == s # <<>> /\ s[1] \in HttpTexts

HttpsPrefix == <<"https:", "/", "/">>

\* urllib.parse.urlparse(s).scheme, as a truth value
HasScheme(s) == s # <<>> /\ s[1] \in HttpToks

\* urllib.parse.urlparse(s).netloc : what follows "scheme://" up to the next
\* "/" ; empty when the string has no "//" authority part
RECURSIVE UpToSlash(_)
UpToSlash(s) ==
  IF s = <<>> \/ Head(s) = "/" THEN <<>> ELSE <<Head(s)>> \o UpToSlash(Tail(s))

Netloc(s) ==
  IF Len(s) >= 3 /\ s[1] \in HttpToks /\ s[2] = "/" /\ s[3] = "/"
  THEN UpToSlash(SubSeq(s, 4, Len(s)))
  ELSE <<>>

----------------------------------------------------------------------------
(* Normalisation, as each ingestion path computes it *)

\* engine.py 374: the website with "https://" put in front when it holds no "http"
EngineWebsite(w) == IF ContainsHttp(w) THEN w ELSE HttpsPrefix \o w

\* engine.py 372-378
EngineNormDomain(w) ==
  IF Falsy(w) THEN Null ELSE Lower(Remove(Netloc(EngineWebsite(w)), "www."))

\* engine.py 380-383
EngineNormHandle(h) ==
  IF Falsy(h) THEN Null
  ELSE LET a == Strip(Remove(Lower(h), "@"))
           b == IF HasProfilePrefix(a, "twitter.com") THEN LastSegment(a) ELSE a
       IN  IF HasProfilePrefix(b, "x.com") THEN LastSegment(b) ELSE b

\* engine.py 63-66
GenNormHandle(h) == IF Falsy(h) THEN Null ELSE Strip(Remove(Lower(h), "@"))

\* engine.py 68-75
GenNormDomain(w) ==
  IF Falsy(w) THEN Null
  ELSE Lower(Remove(Netloc(IF StartsWithHttp(w) THEN w ELSE HttpsPrefix \o w), "www."))

\* pipeline.py 28-33: the pipeline's own domain normalisation (no lower())
PipelineDomain(d) == IF HasScheme(d) THEN d ELSE HttpsPrefix \o d

PipelineNormDomain(d) == Remove(Netloc(PipelineDomain(d)), "www.")

\* pipeline.py 68: the pipeline's own handle normalisation (lower() only)
PipelineNormHandle(h) == Lower(h)

\* engine.py 411 / 94: the stored display handle
AtHandle(nh) == IF Truthy(nh) THEN <<"@">> \o nh ELSE Null

----------------------------------------------------------------------------
(* The leads table *)

\* A RawLead: name and profile image play no part in what is modelled
RawLead(w, h, act) == [website |-> w, twitter_handle |-> h, activity_score |-> act]

\* The Lead(...) row _process_lead builds: engine.py 407-422
EngineLead(raw, rid) ==
  LET nh == EngineNormHandle(raw.twitter_handle)
  IN  [domain |-> IF Falsy(raw.website) THEN raw.website ELSE EngineWebsite(raw.website),
       normalized_domain |-> EngineNormDomain(raw.website),
       twitter_handle |-> AtHandle(nh),
       normalized_handle |-> nh,
       status |-> "New", score |-> raw.activity_score, bucket |-> "None",
       reject_reason |-> "None", email |-> "None", discord_url |-> "None",
       telegram_url |-> "None", telegram_channel |-> "None",
       launch_date |-> "None", source_counts |-> 1, run_id |-> rid]

\* The Lead(...) row generate_unique_leads builds: engine.py 90-104
GenLead(raw) ==
  LET nh == GenNormHandle(raw.twitter_handle)
  IN  [domain |-> raw.website,
       normalized_domain |-> GenNormDomain(raw.website),
       twitter_handle |-> AtHandle(nh),
       normalized_handle |-> nh,
       status |-> "New", score |-> 0, bucket |-> "None",
       reject_reason |-> "None", email |-> "None", discord_url |-> "None",
       telegram_url |-> "None", telegram_channel |-> "None",
       launch_date |-> "None", source_counts |-> 1, run_id |-> 0]

\* A mutation of Conflicts: the handle column without its unique index
ConflictsDomainOnly(a, b) ==
  a.normalized_domain # Null /\ a.normalized_domain = b.normalized_domain

\* The unique indexes of the leads table (NULLs never conflict, "" does)
Conflicts(a, b) ==
  \/ a.normalized_domain # Null /\ a.normalized_domain = b.normalized_domain
  \/ a.normalized_handle # Null /\ a.normalized_handle = b.normalized_handle

\* db.add(lead); db.commit() succeeds
CanInsert(db, row) == \A i \in 1..Len(db) : ~Conflicts(row, db[i])

\* db.commit() of a changed row succeeds
CanUpdate(db, id, row) == \A i \in 1..Len(db) : i # id => ~Conflicts(row, db[i])

\* db.query(Lead).filter(Lead.normalized_handle == nh).first(); 0 when no row
ByHandle(db, nh) ==
  IF \E i \in 1..Len(db) : db[i].normalized_handle = nh
  THEN CHOOSE i \in 1..Len(db) :
         /\ db[i].normalized_handle = nh
         /\ \A j \in 1..(i - 1) : db[j].normalized_handle # nh
  ELSE 0

\* db.query(Lead).filter(Lead.normalized_domain == nd).first(); 0 when no row
ByDomain(db, nd) ==
  IF \E i \in 1..Len(db) : db[i].normalized_domain = nd
  THEN CHOOSE i \in 1..Len(db) :
         /\ db[i].normalized_domain = nd
         /\ \A j \in 1..(i - 1) : db[j].normalized_domain # nd
  ELSE 0

\* The deduplication lookup of _process_lead and of generate_unique_leads:
\* by handle first, then by domain; 0 when nothing matches
Existing(db, nh, nd) ==
  LET byH == IF Truthy(nh) THEN ByHandle(db, nh) ELSE 0
  IN  IF byH # 0 THEN byH
      ELSE IF Truthy(nd) THEN ByDomain(db, nd) ELSE 0

----------------------------------------------------------------------------
(* EnrichmentPipeline *)

\* A mutation of score_lead_v2: the site alone decides the bucket, whether or
\* not there is a handle
score_lead_v2_SiteFirst(lead) ==
  LET has_site == Truthy(lead.domain)
      has_x == Truthy(lead.twitter_handle)
      score == (IF has_site THEN 30 ELSE 0) + (IF has_x THEN 40 ELSE 0)
               + (IF lead.telegram_url # "None" THEN 20 ELSE 0)
               + (IF lead.email # "None" THEN 10 ELSE 0)
  IN  [lead EXCEPT
         !.score = IF score < 100 THEN score ELSE 100,
         !.bucket = IF has_site THEN "NEEDS_ALT_OUTREACH"
                    ELSE IF has_x THEN "READY_TO_DM"
                    ELSE "MANUAL_CHECK",
         !.status = IF has_site THEN "Qualified" ELSE "Enriched",
         !.reject_reason = IF has_x THEN lead.reject_reason ELSE "Missing X"]

\* A mutation of score_lead_v2: the email counts as much as the telegram URL
score_lead_v2_Email20(lead) ==
  LET has_site == Truthy(lead.domain)
      has_x == Truthy(lead.twitter_handle)
      score == (IF has_site THEN 30 ELSE 0) + (IF has_x THEN 40 ELSE 0)
               + (IF lead.telegram_url # "None" THEN 20 ELSE 0)
               + (IF lead.email # "None" THEN 20 ELSE 0)
  IN  [lead EXCEPT
         !.score = score,
         !.bucket = IF has_site /\ has_x THEN "READY_TO_DM"
                    ELSE IF has_site THEN "NEEDS_ALT_OUTREACH"
                    ELSE "MANUAL_CHECK",
         !.status = IF has_site THEN "Qualified" ELSE "Enriched",
         !.reject_reason = IF has_x THEN lead.reject_reason ELSE "Missing X"]

\* pipeline.py 82-118
score_lead_v2(lead) ==
  LET has_site == Truthy(lead.domain)
      has_x == Truthy(lead.twitter_handle)
      score == (IF has_site THEN 30 ELSE 0) + (IF has_x THEN 40 ELSE 0)
               + (IF lead.telegram_url # "None" THEN 20 ELSE 0)
               + (IF lead.email # "None" THEN 10 ELSE 0)
  IN  [lead EXCEPT
         !.score = IF score < 100 THEN score ELSE 100,
         !.bucket = IF has_site /\ has_x THEN "READY_TO_DM"
                    ELSE IF has_site THEN "NEEDS_ALT_OUTREACH"
                    ELSE "MANUAL_CHECK",
         !.status = IF has_site THEN "Qualified" ELSE "Enriched",
         !.reject_reason = IF has_x THEN lead.reject_reason ELSE "Missing X"]

\* pipeline.py 27-33: step 0, the domain is normalised again
PipelineStep0(lead) ==
  IF Truthy(lead.domain)
  THEN [lead EXCEPT !.domain = PipelineDomain(lead.domain),
                    !.normalized_domain = PipelineNormDomain(lead.domain)]
  ELSE lead

\* pipeline.py 36-41: another row holds the lead's normalized_domain
DuplicateDomain(db, id, lead) ==
  /\ Truthy(lead.normalized_domain)
  /\ \E i \in 1..Len(db) : i # id /\ db[i].normalized_domain = lead.normalized_domain

Disqualify(lead, why) == [lead EXCEPT !.status = "Disqualified", !.reject_reason = why]

\* pipeline.py 53-56: what the scraped page holds is copied onto the lead
ApplySocials(lead, soc) ==
  [lead EXCEPT
     !.twitter_handle = IF Truthy(soc.twitter) THEN soc.twitter ELSE @,
     !.discord_url = IF soc.discord # "None" THEN soc.discord ELSE @,
     !.telegram_url = IF soc.telegram # "None" THEN soc.telegram ELSE @,
     !.email = IF soc.email # "None" THEN soc.email ELSE @]

\* pipeline.py 62-63
ApplySearch(lead, found) ==
  IF Truthy(found) THEN [lead EXCEPT !.twitter_handle = found] ELSE lead

\* pipeline.py 66-80: the handle is normalised again, checked, and the lead scored
PipelineStep3(db, id, lead) ==
  IF Truthy(lead.twitter_handle)
  THEN LET l1 == [lead EXCEPT !.normalized_handle = PipelineNormHandle(lead.twitter_handle)]
       IN  IF \E i \in 1..Len(db) :
                 i # id /\ db[i].normalized_handle = l1.normalized_handle
           THEN Disqualify(l1, "Duplicate Handle")
           ELSE score_lead_v2(l1)
  ELSE score_lead_v2(lead)

\* The UPDATE a commit flushes: the attributes the session changed since it
\* loaded the row, laid over the row as the table holds it now
Flushed(row, loaded, obj) ==
  [domain |-> IF obj.domain # loaded.domain THEN obj.domain ELSE row.domain,
   normalized_domain |-> IF obj.normalized_domain # loaded.normalized_domain
                         THEN obj.normalized_domain ELSE row.normalized_domain,
   twitter_handle |-> IF obj.twitter_handle # loaded.twitter_handle
                      THEN obj.twitter_handle ELSE row.twitter_handle,
   normalized_handle |-> IF obj.normalized_handle # loaded.normalized_handle
                         THEN obj.normalized_handle ELSE row.normalized_handle,
   status |-> IF obj.status # loaded.status THEN obj.status ELSE row.status,
   score |-> IF obj.score # loaded.score THEN obj.score ELSE row.score,
   bucket |-> IF obj.bucket # loaded.bucket THEN obj.bucket ELSE row.bucket,
   reject_reason |-> IF obj.reject_reason # loaded.reject_reason
                     THEN obj.reject_reason ELSE row.reject_reason,
   email |-> IF obj.email # loaded.email THEN obj.email ELSE row.email,
   discord_url |-> IF obj.discord_url # loaded.discord_url
                   THEN obj.discord_url ELSE row.discord_url,
   telegram_url |-> IF obj.telegram_url # loaded.telegram_url
                    THEN obj.telegram_url ELSE row.telegram_url,
   telegram_channel |-> row.telegram_channel,
   launch_date |-> row.launch_date,
   source_counts |-> row.source_counts,
   run_id |-> row.run_id]

\* db.commit() after the enrichment: an IntegrityError rolls the UPDATE back
CommitUpdate(db, id, loaded, obj) ==
  LET row == Flushed(db[id], loaded, obj)
  IN  IF CanUpdate(db, id, row) THEN [db EXCEPT ![id] = row] ELSE db

----------------------------------------------------------------------------
(* Bounds and program constants *)

\* engine.py 260: TARGET_NEW_LEADS = 50, scaled down so that a run reaches it
TARGET_NEW_LEADS == 2

\* engine.py 350: the safety limit "loops > 40", scaled down
MaxLoops == 1

\* engine.py 233-242: len(NICHE_SCHEDULE)
NICHE_LEN == 28

\* The invocations of run() a behaviour may hold: one, and a second one that a
\* trigger request starts beside it
Runs == {1, 2}

----------------------------------------------------------------------------
(* State *)

VARIABLES
  leads,            \* the leads table, committed rows; a row's id is its index
  lead_sources,     \* the lead_sources table, committed rows
  state,            \* engine_instance.state, "stats" flattened into it
  stop_requested,   \* engine_instance.stop_requested
  niche_index,      \* core/niche_state.json: {"index": n}
  task,             \* the invocations of run(): where each stands, its locals
  gen,              \* a call of generate_unique_leads in a process of its own
  last,             \* what the last call of an operation did (its return value)
  call              \* a function of the code called on its own: argument and result

vars == <<leads, lead_sources, state, stop_requested, niche_index, task, gen, last, call>>

NoRaw == RawLead(Null, Null, 0)

NoLead == EngineLead(NoRaw, 0)

\* engine.py 127-143
IdleState ==
  [state |-> "idle", run_id |-> 0, completed_at |-> FALSE, discovered |-> 0,
   progress |-> 0, current_step |-> "Ready", new_added |-> 0,
   duplicates_skipped |-> 0, failed_ingestion |-> 0, loops |-> 0]

\* engine.py 162-172
RunningState(rid) ==
  [state |-> "running", run_id |-> rid, completed_at |-> FALSE, discovered |-> 0,
   progress |-> 0, current_step |-> "Initializing", new_added |-> 0,
   duplicates_skipped |-> 0, failed_ingestion |-> 0, loops |-> 0]

\* The locals of an invocation of run(); "stopped" is no local of it: it records
\* that stop() was called while the invocation was under way
NoTask ==
  [pc |-> "none", batch |-> <<>>, idx |-> 0, pass |-> 1, found_new |-> FALSE,
   pct |-> 0, cur_index |-> 0, lid |-> 0, loaded |-> NoLead, obj |-> NoLead,
   stopped |-> FALSE]

\* run() has been entered and has not returned
Active(r) == task[r].pc \notin {"none", "queued", "finished"}

\* engine.py 47-49 and 28-31: the locals and the rotation indexes of the generator
NoGen ==
  [pc |-> "idle", batch |-> <<>>, idx |-> 0, found_count |-> 0, round_added |-> 0,
   duplicate_streak |-> 0, rotation_index |-> 0, keyword_index |-> 0,
   location_index |-> 0]

NoLast == [op |-> "none", res |-> "none", lead |-> 0, raw |-> NoRaw]

\* No function is called on its own
NoCall == [fn |-> "none", arg |-> Null, ret |-> Null, again |-> Null, step |-> 0]

\* The tables are empty, the engine is constructed and idle: engine.py 127-143
Constructed ==
  /\ leads = <<>>
  /\ lead_sources = <<>>
  /\ state = IdleState
  /\ stop_requested = FALSE
  /\ niche_index = 0
  /\ task = [r \in Runs |-> NoTask]
  /\ gen = NoGen
  /\ last = NoLast

Init == Constructed /\ call = NoCall

\* The event loop of the API process runs one coroutine at a time, up to its next
\* await. A run that stands between two candidates of a batch (no await between
\* 309 and 311), between the lookup and the commit of _process_lead, or between
\* the last candidate and the top of the loop has not reached an await
Holding == {"cand", "insert", "endround"}

\* No run holds the event loop: a request handler may run
InProcIdle == \A q \in Runs : task[q].pc \notin Holding

\* No other run holds the event loop: the run r may go on
MayRun(r) == \A q \in Runs \ {r} : task[q].pc \notin Holding

\* int((new_added / TARGET_NEW_LEADS) * 100): engine.py 276, 314
Pct(n) == (n * 100) \div TARGET_NEW_LEADS

----------------------------------------------------------------------------
(* HTTP handlers: api/main.py *)

\* trigger_pipeline, main.py 171-172: answered "busy"
TriggerBusy ==
  /\ InProcIdle
  /\ state.state = "running"
  /\ last' = [NoLast EXCEPT !.op = "trigger", !.res = "busy"]
  /\ UNCHANGED <<leads, lead_sources, state, stop_requested, niche_index, task, gen, call>>

\* trigger_pipeline, main.py 175-178: the run is added as a background task
TriggerStart(R) ==
  /\ InProcIdle
  /\ state.state # "running"
  /\ \E r \in R :
       /\ task[r].pc = "none"
       /\ \A q \in 1..(r - 1) : task[q].pc # "none"
       /\ task' = [task EXCEPT ![r].pc = "queued"]
  /\ last' = [NoLast EXCEPT !.op = "trigger", !.res = "started"]
  /\ UNCHANGED <<leads, lead_sources, state, stop_requested, niche_index, gen, call>>

\* stop_pipeline -> StratosphereEngine.stop: main.py 184-187, engine.py 145-147
Stop ==
  /\ InProcIdle
  /\ stop_requested' = TRUE
  /\ state' = [state EXCEPT !.state = "stopping", !.current_step = "Stopping"]
  /\ task' = [r \in Runs |-> IF Active(r) THEN [task[r] EXCEPT !.stopped = TRUE]
                                          ELSE task[r]]
  /\ last' = NoLast
  /\ UNCHANGED <<leads, lead_sources, niche_index, gen, call>>

----------------------------------------------------------------------------
(* StratosphereEngine.run and _run_collection_phase: engine.py 158-360 *)

\* The end of run(): engine.py 187-189, after the state st its try block left
Finally(st, stop) ==
  LET s1 == [st EXCEPT !.completed_at = TRUE]
  IN  IF stop THEN [s1 EXCEPT !.state = "done", !.current_step = "Stopped"] ELSE s1

\* The background task starts: engine.py 159-172, up to the await of wait_for
StartRun(r) ==
  /\ task[r].pc = "queued"
  /\ MayRun(r)
  /\ stop_requested' = FALSE
  /\ state' = RunningState(r)
  /\ task' = [task EXCEPT ![r].pc = "init"]
  /\ last' = NoLast
  /\ UNCHANGED <<leads, lead_sources, niche_index, gen, call>>

\* engine.py 270-271: the while condition and the stop check
LoopGoesOn(st, stop) == st.new_added < TARGET_NEW_LEADS /\ ~stop

\* The mutation of SafetyLimit: the limit is never reached
SafetyLimitNever(st) == FALSE

\* engine.py 350: the safety limit
SafetyLimit(st) == st.loops > MaxLoops

\* self.state["stats"]["loops"] += 1, engine.py 273; the model stops counting
\* where the counter is beyond what any run can bring it to under the limit
NextLoops(n) == IF n <= MaxLoops + Cardinality(Runs) THEN n + 1 ELSE n

\* A mutation of NextIndex: the cursor is advanced without the modulo
NextIndexNoWrap(i) == i + 1

\* engine.py 355: the cursor that is saved when the loop is left
NextIndex(i) == (i + 1) % NICHE_LEN

\* The top of the batch loop, engine.py 270-282: either a round starts and the
\* task awaits (sleep, then the collector), or the loop is left and the cursor
\* saved (355-356)
LoopTop(r, st, tk) ==
  IF LoopGoesOn(st, stop_requested)
  THEN /\ state' = [st EXCEPT !.loops = NextLoops(@), !.current_step = "Scanning",
                              !.progress = Pct(st.new_added)]
       /\ task' = [task EXCEPT ![r] = [tk EXCEPT !.pc = "round",
                                                !.pct = Pct(st.new_added)]]
       /\ niche_index' = niche_index
  ELSE /\ state' = st
       /\ task' = [task EXCEPT ![r] = [tk EXCEPT !.pc = "exit"]]
       /\ niche_index' = NextIndex(tk.cur_index)

\* _run_collection_phase starts: engine.py 213-282
Begin(r) ==
  /\ task[r].pc = "init"
  /\ MayRun(r)
  /\ stop_requested' = stop_requested
  /\ LoopTop(r, [state EXCEPT !.current_step = "Scanning", !.progress = 0],
             [task[r] EXCEPT !.cur_index = niche_index % NICHE_LEN])
  /\ last' = NoLast
  /\ UNCHANGED <<leads, lead_sources, gen, call>>

\* The collector returns the batch b: engine.py 303-308, 317-332
Collect(r, b) ==
  /\ task[r].pc = "round"
  /\ MayRun(r)
  /\ IF Len(b) > 0
     THEN /\ task' = [task EXCEPT ![r] = [@ EXCEPT !.pc = "cand", !.batch = b, !.idx = 1,
                                                  !.pass = 1, !.found_new = FALSE]]
          /\ state' = state
     ELSE /\ task' = [task EXCEPT ![r] = [@ EXCEPT !.pc = "retry", !.batch = b, !.idx = 1,
                                                  !.pass = 1, !.found_new = FALSE]]
          /\ state' = [state EXCEPT !.current_step = "DeepScan",
                                    !.progress = task[r].pct]
  /\ last' = NoLast
  /\ UNCHANGED <<leads, lead_sources, stop_requested, niche_index, gen, call>>

\* The collector of the variant retry returns the batch b: engine.py 333-343
RetryCollect(r, b) ==
  /\ task[r].pc = "retry"
  /\ MayRun(r)
  /\ task' = [task EXCEPT ![r] = [@ EXCEPT !.pc = IF Len(b) > 0 THEN "cand" ELSE "nosleep",
                                          !.batch = b, !.idx = 1, !.pass = 2]]
  /\ last' = NoLast
  /\ UNCHANGED <<leads, lead_sources, state, stop_requested, niche_index, gen, call>>

\* A mutation of CollectRaises: the exception of the collector ends the run
CollectRaisesAborts(r) ==
  /\ task[r].pc \in {"round", "retry"}
  /\ MayRun(r)
  /\ state' = Finally([state EXCEPT !.state = "error", !.current_step = "Error"],
                      stop_requested)
  /\ task' = [task EXCEPT ![r] = [NoTask EXCEPT !.pc = "finished"]]
  /\ last' = NoLast
  /\ UNCHANGED <<leads, lead_sources, stop_requested, niche_index, gen, call>>

\* The collector raises: engine.py 345-347
CollectRaises(r) ==
  /\ task[r].pc \in {"round", "retry"}
  /\ MayRun(r)
  /\ task' = [task EXCEPT ![r].pc = "errsleep"]
  /\ last' = NoLast
  /\ UNCHANGED <<leads, lead_sources, state, stop_requested, niche_index, gen, call>>

\* The for loop over the batch ends: engine.py 309-310, 337-338, 341-343
EndFor(r) ==
  /\ task[r].pc = "cand"
  /\ MayRun(r)
  /\ task[r].idx > Len(task[r].batch) \/ state.new_added >= TARGET_NEW_LEADS
  /\ task' = [task EXCEPT ![r].pc = IF task[r].found_new THEN "endround" ELSE "nosleep"]
  /\ last' = NoLast
  /\ UNCHANGED <<leads, lead_sources, state, stop_requested, niche_index, gen, call>>

\* The round ends: engine.py 349-352, then the top of the loop again
EndRound(r) ==
  /\ task[r].pc \in {"endround", "nosleep", "errsleep"}
  /\ MayRun(r)
  /\ stop_requested' = stop_requested
  /\ IF SafetyLimit(state)
     THEN /\ state' = state
          /\ task' = [task EXCEPT ![r].pc = "exit"]
          /\ niche_index' = NextIndex(task[r].cur_index)
     ELSE LoopTop(r, state, task[r])
  /\ last' = NoLast
  /\ UNCHANGED <<leads, lead_sources, gen, call>>

\* _run_collection_phase has returned: engine.py 179, 187-189
Finish(r) ==
  /\ task[r].pc = "exit"
  /\ MayRun(r)
  /\ state' = Finally([state EXCEPT !.state = "done", !.current_step = "Complete",
                                    !.progress = 100], stop_requested)
  /\ task' = [task EXCEPT ![r] = [NoTask EXCEPT !.pc = "finished"]]
  /\ last' = NoLast
  /\ UNCHANGED <<leads, lead_sources, stop_requested, niche_index, gen, call>>

\* The places where the collection phase awaits
Awaiting == {"round", "retry", "fetch", "search", "nosleep", "errsleep"}

\* The 300 s of wait_for are over while the phase awaits: engine.py 178, 181-183,
\* 187-189, 359-360
Timeout(r) ==
  /\ task[r].pc \in Awaiting
  /\ MayRun(r)
  /\ state' = Finally([state EXCEPT !.state = "done", !.current_step = "TimedOut"],
                      stop_requested)
  /\ task' = [task EXCEPT ![r] = [NoTask EXCEPT !.pc = "finished"]]
  /\ last' = NoLast
  /\ UNCHANGED <<leads, lead_sources, stop_requested, niche_index, gen, call>>

\* The collection phase raises as it starts (SessionLocal(), the state file):
\* engine.py 184-189
Crash(r) ==
  /\ task[r].pc = "init"
  /\ MayRun(r)
  /\ state' = Finally([state EXCEPT !.state = "error", !.current_step = "Error"],
                      stop_requested)
  /\ task' = [task EXCEPT ![r] = [NoTask EXCEPT !.pc = "finished"]]
  /\ last' = NoLast
  /\ UNCHANGED <<leads, lead_sources, stop_requested, niche_index, gen, call>>

----------------------------------------------------------------------------
(* StratosphereEngine._process_lead: engine.py 362-444, with the enrichment  *)
(* it awaits, pipeline.py 24-80                                              *)

CurrentRaw(r) == task[r].batch[task[r].idx]

\* The candidate is done with and the for loop goes to the next one
NextCandidate(tk) ==
  [tk EXCEPT !.pc = "cand", !.idx = @ + 1, !.lid = 0, !.loaded = NoLead, !.obj = NoLead]

\* engine.py 364-394: the admission check, the normalisation and the lookup.
\* A candidate that is let through and matches no row is inserted next.
ProcessLookup(r) ==
  /\ task[r].pc = "cand"
  /\ MayRun(r)
  /\ task[r].idx <= Len(task[r].batch)
  /\ state.new_added < TARGET_NEW_LEADS
  /\ \E raw \in {CurrentRaw(r)} :
     \E nd \in {EngineNormDomain(raw.website)} :
     \E nh \in {EngineNormHandle(raw.twitter_handle)} :
     \E ex \in {Existing(leads, nh, nd)} :
       IF Falsy(raw.website) /\ Falsy(raw.twitter_handle)
       THEN /\ task' = [task EXCEPT ![r] = NextCandidate(@)]
            /\ state' = state
            /\ last' = [op |-> "process", res |-> "rejected", lead |-> 0, raw |-> raw]
       ELSE IF ex # 0
       THEN /\ task' = [task EXCEPT ![r] = NextCandidate(@)]
            /\ state' = [state EXCEPT !.duplicates_skipped = @ + 1]
            /\ last' = [op |-> "process", res |-> "duplicate", lead |-> ex, raw |-> raw]
       ELSE /\ task' = [task EXCEPT ![r].pc = "insert"]
            /\ state' = state
            /\ last' = [op |-> "process", res |-> "lookup", lead |-> 0, raw |-> raw]
  /\ UNCHANGED <<leads, lead_sources, stop_requested, niche_index, gen, call>>

\* engine.py 432-439 and 312-315, 339: the enrichment has returned the lead as
\* obj; it is committed, counted, and the controller shows the progress
AfterEnrichment(r, db, id, loaded, obj) ==
  \E o \in {obj} :
    LET s1 == [state EXCEPT !.new_added = @ + 1, !.discovered = @ + 1]
    IN  /\ leads' = CommitUpdate(db, id, loaded, o)
        /\ state' = IF task[r].pass = 1
                    THEN [s1 EXCEPT !.current_step = "Scanning",
                                    !.progress = Pct(s1.new_added)]
                    ELSE s1
        /\ task' = [task EXCEPT ![r] = [NextCandidate(@) EXCEPT !.found_new = TRUE]]
        /\ last' = [op |-> "process", res |-> "new", lead |-> id, raw |-> CurrentRaw(r)]

\* The enrichment goes on from its step 1 with the lead as obj: it awaits the
\* scraper when the lead has a domain (pipeline.py 48-49), else the handle
\* search when it has no handle (59-61), else it runs to its end (66-80)
EnrichFrom(r, db, id, loaded, obj) ==
  IF Truthy(obj.domain) \/ Falsy(obj.twitter_handle)
  THEN /\ leads' = db
       /\ state' = state
       /\ task' = [task EXCEPT ![r] =
                     [@ EXCEPT !.pc = IF Truthy(obj.domain) THEN "fetch" ELSE "search",
                               !.lid = id, !.loaded = loaded, !.obj = obj]]
       /\ last' = [op |-> "process", res |-> "inserted", lead |-> id, raw |-> CurrentRaw(r)]
  ELSE AfterEnrichment(r, db, id, loaded, PipelineStep3(db, id, obj))

\* engine.py 406-431, pipeline.py 27-45: the row is inserted and committed; a
\* unique-index violation is an exception, caught at 441-444
ProcessInsert(r) ==
  /\ task[r].pc = "insert"
  /\ \E row \in {EngineLead(CurrentRaw(r), r)} :
     \E obj \in {PipelineStep0(row)} :
       LET id == Len(leads) + 1
           db == Append(leads, row)
       IN  IF ~CanInsert(leads, row)
           THEN /\ leads' = leads
                /\ state' = [state EXCEPT !.failed_ingestion = @ + 1]
                /\ task' = [task EXCEPT ![r] = NextCandidate(@)]
                /\ last' = [op |-> "process", res |-> "failed", lead |-> 0,
                            raw |-> CurrentRaw(r)]
           ELSE IF DuplicateDomain(db, id, obj)
           THEN AfterEnrichment(r, db, id, row, Disqualify(obj, "Duplicate Domain"))
           ELSE EnrichFrom(r, db, id, row, obj)
  /\ UNCHANGED <<lead_sources, stop_requested, niche_index, gen, call>>

\* The scraper returns and the page holds the socials soc: pipeline.py 49-64
FetchDone(r, soc) ==
  /\ task[r].pc = "fetch"
  /\ MayRun(r)
  /\ \E obj \in {ApplySocials(task[r].obj, soc)} :
       IF Falsy(obj.twitter_handle)
       THEN /\ task' = [task EXCEPT ![r] = [@ EXCEPT !.pc = "search", !.obj = obj]]
            /\ last' = [op |-> "process", res |-> "fetched", lead |-> task[r].lid,
                        raw |-> CurrentRaw(r)]
            /\ UNCHANGED <<leads, state>>
       ELSE AfterEnrichment(r, leads, task[r].lid, task[r].loaded,
                            PipelineStep3(leads, task[r].lid, obj))
  /\ UNCHANGED <<lead_sources, stop_requested, niche_index, gen, call>>

\* search_x_handle returns found (None when it found nothing): pipeline.py 61-80
SearchDone(r, found) ==
  /\ task[r].pc = "search"
  /\ MayRun(r)
  /\ \E obj \in {ApplySearch(task[r].obj, found)} :
       AfterEnrichment(r, leads, task[r].lid, task[r].loaded,
                       PipelineStep3(leads, task[r].lid, obj))
  /\ UNCHANGED <<lead_sources, stop_requested, niche_index, gen, call>>

\* analyze_lead, main.py 196-234: what enrich_url found is written on the lead
\* (the drafted texts are not modelled)
AnalyzeLead(id, data) ==
  /\ InProcIdle
  /\ id \in 1..Len(leads)
  /\ LET lead == leads[id]
         upd == IF Truthy(lead.domain) /\ ContainsHttp(lead.domain)
                THEN [lead EXCEPT
                        !.email = IF data.email # "None" THEN data.email ELSE @,
                        !.telegram_url = IF data.telegram_url # "None"
                                         THEN data.telegram_url ELSE @,
                        !.discord_url = IF data.discord_url # "None"
                                        THEN data.discord_url ELSE @,
                        !.twitter_handle = IF Truthy(data.twitter_handle)
                                              /\ Falsy(lead.twitter_handle)
                                           THEN data.twitter_handle ELSE @]
                ELSE lead
     IN  leads' = [leads EXCEPT ![id] = upd]
  /\ last' = [op |-> "analyze", res |-> "ok", lead |-> id, raw |-> NoRaw]
  /\ UNCHANGED <<lead_sources, state, stop_requested, niche_index, task, gen, call>>

\* update_lead_status, main.py 253-265: the status and the bucket the request
\* carries are written on the lead
UpdateLeadStatus(id, update) ==
  /\ InProcIdle
  /\ id \in 1..Len(leads)
  /\ leads' = [leads EXCEPT ![id] =
                 [@ EXCEPT !.status = IF update.status # "None" THEN update.status ELSE @,
                           !.bucket = IF update.bucket # "None" THEN update.bucket ELSE @]]
  /\ last' = [op |-> "status", res |-> "ok", lead |-> id, raw |-> NoRaw]
  /\ UNCHANGED <<lead_sources, state, stop_requested, niche_index, task, gen, call>>

----------------------------------------------------------------------------
(* LeadBatchGenerator: engine.py 18-121 *)

\* batch_size, the argument of LeadBatchGenerator(batch_size=50)
BatchSize == 2

\* engine.py 21
max_consecutive_duplicates == 10

\* engine.py 22-25: len(search_rotations), and the lengths of the keyword and
\* location lists of each rotation
RotationsLen == 2

KeywordsLen(rot) == IF rot = 0 THEN 5 ELSE 4

LocationsLen(rot) == IF rot = 0 THEN 5 ELSE 3

\* engine.py 33-38
rotate_search(g) ==
  LET kw == (g.keyword_index + 1) % KeywordsLen(g.rotation_index)
      loc == IF kw = 0
             THEN (g.location_index + 1) % LocationsLen(g.rotation_index)
             ELSE g.location_index
      rot == IF kw = 0 /\ loc = 0
             THEN (g.rotation_index + 1) % RotationsLen
             ELSE g.rotation_index
  IN  [g EXCEPT !.keyword_index = kw, !.location_index = loc, !.rotation_index = rot]

\* generate_unique_leads is called: engine.py 46-57
GenStart ==
  /\ gen.pc = "idle"
  /\ gen' = [gen EXCEPT !.pc = IF gen.found_count < BatchSize THEN "collect" ELSE "done"]
  /\ last' = NoLast
  /\ UNCHANGED <<leads, lead_sources, state, stop_requested, niche_index, task, call>>

\* collect_profiles returns the candidates b: engine.py 57-58
GenCollect(b) ==
  /\ gen.pc = "collect"
  /\ gen' = [gen EXCEPT !.pc = "cand", !.batch = b, !.idx = 1, !.round_added = 0]
  /\ last' = NoLast
  /\ UNCHANGED <<leads, lead_sources, state, stop_requested, niche_index, task, call>>

\* engine.py 59-88: the normalisation and the lookup of one candidate
GenLookup ==
  /\ gen.pc = "cand"
  /\ gen.idx <= Len(gen.batch)
  /\ LET raw == gen.batch[gen.idx]
         ex == Existing(leads, GenNormHandle(raw.twitter_handle),
                        GenNormDomain(raw.website))
         g1 == [gen EXCEPT !.duplicate_streak = @ + 1, !.idx = @ + 1]
     IN  IF ex # 0
         THEN /\ gen' = IF g1.duplicate_streak > max_consecutive_duplicates
                        THEN [rotate_search(g1) EXCEPT !.duplicate_streak = 0]
                        ELSE g1
              /\ last' = [op |-> "generate", res |-> "duplicate", lead |-> ex, raw |-> raw]
         ELSE /\ gen' = [gen EXCEPT !.pc = "insert"]
              /\ last' = [op |-> "generate", res |-> "lookup", lead |-> 0, raw |-> raw]
  /\ UNCHANGED <<leads, lead_sources, state, stop_requested, niche_index, task, call>>

\* engine.py 90-113: the row is inserted and committed; a unique-index
\* violation leaves generate_unique_leads as an exception (117-120)
GenInsert ==
  /\ gen.pc = "insert"
  /\ LET raw == gen.batch[gen.idx]
         row == GenLead(raw)
         g1 == [gen EXCEPT !.found_count = @ + 1, !.round_added = @ + 1,
                           !.duplicate_streak = 0]
     IN  IF CanInsert(leads, row)
         THEN /\ leads' = Append(leads, row)
              /\ gen' = IF g1.found_count >= BatchSize
                        THEN [g1 EXCEPT !.pc = "done", !.batch = <<>>, !.idx = 0]
                        ELSE [g1 EXCEPT !.pc = "cand", !.idx = @ + 1]
              /\ last' = [op |-> "generate", res |-> "new", lead |-> Len(leads) + 1,
                          raw |-> raw]
         ELSE /\ leads' = leads
              /\ gen' = [gen EXCEPT !.pc = "raised", !.batch = <<>>, !.idx = 0]
              /\ last' = [op |-> "generate", res |-> "raised", lead |-> 0, raw |-> raw]
  /\ UNCHANGED <<lead_sources, state, stop_requested, niche_index, task, call>>

\* engine.py 114-116 and 55: the candidates of the round are used up
GenEndRound ==
  /\ gen.pc = "cand"
  /\ gen.idx > Len(gen.batch)
  /\ gen' = [(IF gen.round_added = 0 THEN rotate_search(gen) ELSE gen)
               EXCEPT !.pc = "collect", !.batch = <<>>, !.idx = 0]
  /\ last' = NoLast
  /\ UNCHANGED <<leads, lead_sources, state, stop_requested, niche_index, task, call>>

----------------------------------------------------------------------------
(* Inputs *)

\* Scenario A of the design: the same site, first without and then with a handle
cAcme1 == RawLead(<<"http:", "/", "/", "acme", ".io">>, Null, 0)

cAcme2 == RawLead(<<"https:", "/", "/", "www.", "acme", ".io">>, <<"@", "acme">>, 0)

\* Scenario B of the design: one handle in two letter cases, two domains
cFoo1 == RawLead(<<"https:", "/", "/", "foo", ".io">>, <<"@", "Foo">>, 0)

cFoo2 == RawLead(<<"bar", ".io">>, <<"@", "FOO">>, 0)

\* A candidate with no identity signal at all
cNone == RawLead(Null, Null, 0)

\* A website in capital letters and no handle
cUpper == RawLead(<<"https:", "/", "/", "ACME", ".io">>, Null, 0)

\* Scenario C of the design: the "handle" scraped from a search-results page,
\* the profile URL x.com/search
cSearch == RawLead(Null, <<"https:", "/", "/", "x.com", "/", "search">>, 0)

\* What the scraped page of a lead may hold: SocialExtractor.extract_all
NoSocials == [twitter |-> Null, discord |-> "None", telegram |-> "None", email |-> "None"]

SomeSocials == [twitter |-> <<"Acme">>, discord |-> "d1", telegram |-> "t1", email |-> "e1"]

\* What EnrichmentEngine.enrich_url may return to analyze_lead
NoData ==
  [twitter_handle |-> Null, discord_url |-> "None", telegram_url |-> "None",
   email |-> "None"]

SomeData ==
  [twitter_handle |-> <<"Bar">>, discord_url |-> "d2", telegram_url |-> "t2",
   email |-> "e2"]

StoreCands == {cAcme1, cAcme2, cFoo1, cFoo2, cNone, cUpper, cSearch}

StoreBatches == {<<>>} \cup {<<c>> : c \in StoreCands}

StoreSocials == {NoSocials, SomeSocials}

StoreFound == {Null, <<"Acme">>}

StoreData == {NoData, SomeData}

\* The bodies of a status request: StatusUpdate, main.py 249-251
StoreUpdates == {[status |-> "Contacted", bucket |-> "None"],
                 [status |-> "None", bucket |-> "MANUAL_CHECK"]}

----------------------------------------------------------------------------
(* Specifications *)

\* One run of the engine, candidate by candidate, and the analyze endpoint
Next ==
  \/ TriggerStart({1})
  \/ TriggerBusy
  \/ StartRun(1)
  \/ Begin(1)
  \/ \E b \in StoreBatches : Collect(1, b)
  \/ \E b \in StoreBatches : RetryCollect(1, b)
  \/ CollectRaises(1)
  \/ ProcessLookup(1)
  \/ ProcessInsert(1)
  \/ \E soc \in StoreSocials : FetchDone(1, soc)
  \/ \E found \in StoreFound : SearchDone(1, found)
  \/ EndFor(1)
  \/ EndRound(1)
  \/ Finish(1)
  \/ \E id \in 1..Len(leads) : \E data \in StoreData : AnalyzeLead(id, data)
  \/ \E id \in 1..Len(leads) : \E update \in StoreUpdates : UpdateLeadStatus(id, update)

Spec == Init /\ [][Next]_vars

\* The run controller under trigger and stop requests, with the invocations of
\* run() they lead to, over few candidates
CtlBatches == {<<>>, <<cAcme1, cFoo1>>}

CtlSocials == {NoSocials}

CtlFound == {Null}

\* What an invocation of run() does when the calls it awaits return
RunStep(r) ==
  \/ StartRun(r)
  \/ Begin(r)
  \/ \E b \in CtlBatches : Collect(r, b)
  \/ \E b \in CtlBatches : RetryCollect(r, b)
  \/ ProcessLookup(r)
  \/ ProcessInsert(r)
  \/ \E soc \in CtlSocials : FetchDone(r, soc)
  \/ \E found \in CtlFound : SearchDone(r, found)
  \/ EndFor(r)
  \/ EndRound(r)
  \/ Finish(r)

\* What may befall it: the collector raises, the 300 s are over, the phase raises
RunFails(r) ==
  \/ CollectRaises(r)
  \/ Timeout(r)
  \/ Crash(r)

NextCtl ==
  \/ TriggerStart(Runs)
  \/ Stop
  \/ \E r \in Runs : RunStep(r)
  \/ \E r \in Runs : RunFails(r)

\* The event loop runs every task that is ready, and the awaited calls return
SpecCtl == Init /\ [][NextCtl]_vars /\ \A r \in Runs : WF_vars(RunStep(r))

\* The batch generator in a process of its own, beside one run of the engine
GenBatches == {<<cFoo1>>, <<cNone>>}

EngBatches == {<<cFoo2>>}

NextGen ==
  \/ GenStart
  \/ \E b \in GenBatches : GenCollect(b)
  \/ GenLookup
  \/ GenInsert
  \/ GenEndRound
  \/ TriggerStart({1})
  \/ StartRun(1)
  \/ Begin(1)
  \/ \E b \in EngBatches : Collect(1, b)
  \/ ProcessLookup(1)
  \/ ProcessInsert(1)
  \/ \E soc \in CtlSocials : FetchDone(1, soc)
  \/ EndFor(1)
  \/ EndRound(1)
  \/ Finish(1)

SpecGen == Init /\ [][NextGen]_vars

\* The scoring function called on its own on a lead of any shape
\* (launch_date: no date, a date to come, a date of the last 7 days, an older one)
ScoreInputs ==
  {[NoLead EXCEPT !.domain = d, !.twitter_handle = h, !.telegram_url = t,
                  !.email = e, !.launch_date = ld] :
     d \in {Null, <<>>, <<"https:", "/", "/", "acme", ".io">>},
     h \in {Null, <<>>, <<"@", "acme">>},
     t \in {"None", "t1"},
     e \in {"None", "e1"},
     ld \in {"None", "future", "recent", "old"}}

InitScore ==
  /\ Constructed
  /\ call \in {[NoCall EXCEPT !.fn = "score_lead_v2", !.arg = l] : l \in ScoreInputs}

\* pipeline.py 80: self.score_lead_v2(lead)
ScoreLead ==
  /\ call.fn = "score_lead_v2"
  /\ call.step = 0
  /\ call' = [call EXCEPT !.ret = score_lead_v2(call.arg), !.step = 1]
  /\ UNCHANGED <<leads, lead_sources, state, stop_requested, niche_index, task, gen, last>>

NextScore == ScoreLead

SpecScore == InitScore /\ [][NextScore]_vars

\* The normalisations of the two ingestion paths called on their own, and
\* called again on what they returned
NormFns == {"engine_domain", "engine_handle", "generator_domain", "generator_handle"}

Normalize(fn, x) ==
  CASE fn = "engine_domain" -> EngineNormDomain(x)
    [] fn = "engine_handle" -> EngineNormHandle(x)
    [] fn = "generator_domain" -> GenNormDomain(x)
    [] fn = "generator_handle" -> GenNormHandle(x)

\* Websites as candidates carry them: with or without scheme, "www." and path
DomainInputs ==
  {Null, <<>>} \cup
  {scheme \o www \o <<name, ".io">> \o path :
     scheme \in {<<>>, <<"http:", "/", "/">>, <<"https:", "/", "/">>},
     www \in {<<>>, <<"www.">>, <<"WWW.">>},
     name \in {"acme", "ACME", "httpbin"},
     path \in {<<>>, <<"/">>, <<"/", "about">>}}

\* Handles as candidates carry them: bare, with "@", or as a profile URL
HandleInputs ==
  {Null, <<>>} \cup
  {pre \o sp \o <<name>> \o post :
     pre \in {<<>>, <<"@">>, <<"twitter.com", "/">>,
              <<"https:", "/", "/", "x.com", "/">>},
     sp \in {<<>>, <<" ">>},
     name \in {"foo", "Foo"},
     post \in {<<>>, <<" ">>, <<"/">>}}

NormInputs(fn) ==
  IF fn \in {"engine_domain", "generator_domain"} THEN DomainInputs ELSE HandleInputs

InitNorm ==
  /\ Constructed
  /\ call \in {[NoCall EXCEPT !.fn = fn, !.arg = x] :
                 fn \in NormFns, x \in DomainInputs \cup HandleInputs}
  /\ call.arg \in NormInputs(call.fn)

\* engine.py 372-383, 63-75: the candidate's field is normalised
NormalizeOnce ==
  /\ call.fn \in NormFns
  /\ call.step = 0
  /\ call' = [call EXCEPT !.ret = Normalize(call.fn, call.arg), !.step = 1]
  /\ UNCHANGED <<leads, lead_sources, state, stop_requested, niche_index, task, gen, last>>

\* The value it gave comes back as a candidate's field and is normalised again
NormalizeAgain ==
  /\ call.fn \in NormFns
  /\ call.step = 1
  /\ call' = [call EXCEPT !.again = Normalize(call.fn, call.ret), !.step = 2]
  /\ UNCHANGED <<leads, lead_sources, state, stop_requested, niche_index, task, gen, last>>

NextNorm ==
  \/ NormalizeOnce
  \/ NormalizeAgain

SpecNorm == InitNorm /\ [][NextNorm]_vars

\* The niche rotation over runs of a process that finds core/niche_state.json
\* as an earlier process left it, with a collector that finds nothing
InitRot ==
  /\ leads = <<>>
  /\ lead_sources = <<>>
  /\ state = IdleState
  /\ stop_requested = FALSE
  /\ niche_index \in 0..(NICHE_LEN - 1)
  /\ task = [r \in Runs |-> NoTask]
  /\ gen = NoGen
  /\ last = NoLast
  /\ call = NoCall

NextRot ==
  \/ TriggerStart(Runs)
  \/ Stop
  \/ \E r \in Runs :
       \/ StartRun(r)
       \/ Begin(r)
       \/ Collect(r, <<>>)
       \/ RetryCollect(r, <<>>)
       \/ EndRound(r)
       \/ Finish(r)
       \/ Timeout(r)

SpecRot == InitRot /\ [][NextRot]_vars

\* A third identity, for runs that share the counters of the engine
cBaz == RawLead(<<"https:", "/", "/", "baz", ".io">>, <<"@", "baz">>, 0)

\* Two invocations of run() on the one engine instance, each with a collector
\* that returns more new identities than the target
RaceBatches == {<<cFoo1, cAcme2, cBaz>>}

NextRace ==
  \/ TriggerStart(Runs)
  \/ \E r \in Runs :
       \/ StartRun(r)
       \/ Begin(r)
       \/ \E b \in RaceBatches : Collect(r, b)
       \/ ProcessLookup(r)
       \/ ProcessInsert(r)
       \/ \E soc \in CtlSocials : FetchDone(r, soc)
       \/ EndFor(r)
       \/ EndRound(r)
       \/ Finish(r)

SpecRace == Init /\ [][NextRace]_vars

----------------------------------------------------------------------------
(* Properties *)

\* C1: after any sequence of candidates processed by _process_lead (lookup,
\* insert, enrichment, commit) the leads table never holds two rows with the
\* same non-null normalized_domain, nor the same non-null normalized_handle, nor
\* the same non-null channel key (the telegram_channel column).
C1_UniqueIdentityKeys ==
  \A i, j \in 1..Len(leads) :
    i # j =>
      /\ leads[i].normalized_domain # Null
           => leads[i].normalized_domain # leads[j].normalized_domain
      /\ leads[i].normalized_handle # Null
           => leads[i].normalized_handle # leads[j].normalized_handle
      /\ leads[i].telegram_channel # "None"
           => leads[i].telegram_channel # leads[j].telegram_channel

\* C1 witness: a second lead is there, its enrichment wrote a key that another
\* row holds, and the commit was refused: the row is still as it was inserted
C1_Witness ==
  /\ last.op = "process" /\ last.res = "new"
  /\ Len(leads) >= 2
  /\ leads[last.lead].status = "New"
  /\ \A i \in 1..Len(leads) :
       leads[i].normalized_handle # Null /\ leads[i].normalized_domain # Null

\* C2: a candidate whose handle differs from the handle of a stored lead only in
\* letter case or a leading "@", and whose domain is another one, is matched to
\* that lead: it is never taken for a new lead, and no second row is made of it.
C2_HandleIdentityWins ==
  \A i \in 1..Len(leads) :
    (/\ last.op = "process"
     /\ Truthy(last.raw.twitter_handle)
     /\ leads[i].twitter_handle = AtHandle(EngineNormHandle(last.raw.twitter_handle))
     /\ leads[i].normalized_domain # EngineNormDomain(last.raw.website)
     /\ i # last.lead)
    => last.res = "duplicate"

\* C3: at most one run of the engine is accepted and not yet at its terminal
\* state, and a trigger that arrives while there is one is answered "busy".
C3_OneRunAtATime ==
  /\ Cardinality({r \in Runs : task[r].pc \notin {"none", "finished"}}) <= 1
  /\ (last.op = "trigger" /\ last.res = "started")
       => Cardinality({r \in Runs : task[r].pc \notin {"none", "finished"}}) = 1

\* C4: once stop() has been called while a run was under way, that run starts
\* no new round, and when it ends the state is the Stopped terminal state,
\* whatever trigger and stop requests come later.
C4_StopIsFinal ==
  [][\A r \in Runs :
       task[r].stopped =>
         /\ task'[r].pc = "round" => task[r].pc = "round"
         /\ (task'[r].pc = "finished" /\ task[r].pc # "finished")
              => (state'.state = "done" /\ state'.current_step = "Stopped")]_vars

\* C5: every accepted run ends: no run is for ever accepted and not ended (a run
\* that has ended stays ended, and one that was accepted is never unaccepted);
\* when it ends the state is "done" or "error" with completed_at set; a run goes
\* from one round to the next only while the target is not reached, the loop
\* limit is not exceeded and no stop is requested; and the loop counter stays
\* bounded even when no lead is ever added: every run that counts on it can
\* exceed the limit by one round at most.
C5_RunTerminates ==
  /\ \A r \in Runs : []<>(task[r].pc \in {"none", "finished"})
  /\ [][\A r \in Runs :
          /\ (task'[r].pc = "finished" /\ task[r].pc # "finished")
               => (state'.state \in {"done", "error"} /\ state'.completed_at)
          /\ (task'[r].pc = "round" /\ task[r].pc \in {"endround", "nosleep", "errsleep"})
               => /\ state.new_added < TARGET_NEW_LEADS
                  /\ state.loops <= MaxLoops
                  /\ ~stop_requested]_vars
  /\ [](state.loops <= MaxLoops + Cardinality(Runs))

\* C5 witness: a run has ended on the safety limit alone: the target was not
\* reached, nobody asked it to stop, and the state is terminal
C5_Witness ==
  /\ \E r \in Runs : task[r].pc = "finished"
  /\ \A r \in Runs : task[r].pc \in {"none", "finished"}
  /\ state.loops = MaxLoops + 1
  /\ state.new_added < TARGET_NEW_LEADS
  /\ ~stop_requested
  /\ state.state = "done" /\ state.current_step = "Complete" /\ state.completed_at

\* C6: a candidate with no domain, no handle and no channel is rejected on every
\* ingestion path, and no row of the leads table has all of its identity keys
\* null or empty.
C6_AdmissionFloor ==
  /\ (last.op \in {"process", "generate"}
      /\ Falsy(last.raw.website) /\ Falsy(last.raw.twitter_handle))
       => last.res = "rejected"
  /\ \A i \in 1..Len(leads) :
       \/ Truthy(leads[i].normalized_domain)
       \/ Truthy(leads[i].normalized_handle)
       \/ leads[i].telegram_channel # "None"

\* C7: when a candidate has been matched to a stored lead, a field the candidate
\* supplies (domain, handle) is not empty on that lead any more: the lead had
\* it, or it has gained the candidate's value.
C7_MergeFillsEmptyFields ==
  (last.op = "process" /\ last.res = "duplicate") =>
    /\ Truthy(last.raw.twitter_handle) => Truthy(leads[last.lead].twitter_handle)
    /\ Truthy(last.raw.website) => Truthy(leads[last.lead].domain)

\* C8: once the handle, email, telegram URL or discord URL of a stored lead
\* holds a value, no later step writes another value over it.
C8_FirstWriterWins ==
  [][\A i \in 1..Len(leads) :
       /\ Truthy(leads[i].twitter_handle)
            => leads'[i].twitter_handle = leads[i].twitter_handle
       /\ leads[i].email # "None" => leads'[i].email = leads[i].email
       /\ leads[i].telegram_url # "None"
            => leads'[i].telegram_url = leads[i].telegram_url
       /\ leads[i].discord_url # "None"
            => leads'[i].discord_url = leads[i].discord_url]_vars

\* C9: in every state the source_counts of a lead is the number of lead_sources
\* rows that lead owns.
C9_SourceCountsAreSightings ==
  \A i \in 1..Len(leads) :
    leads[i].source_counts =
      Cardinality({k \in 1..Len(lead_sources) : lead_sources[k].lead_id = i})

\* C10: a candidate whose insert meets a unique-index violation, because
\* another writer took its key after the lookup, is handled as a duplicate of
\* the lead that holds the key and never as a failed ingestion.
C10_RaceIsMerged ==
  /\ ~(last.op = "process" /\ last.res = "failed")
  /\ state.failed_ingestion = 0

\* C11: a run that leaves its loop with the target not reached and no stop
\* requested has left it because its rounds stopped producing new leads, before
\* the loop limit was reached (a source that returns nothing but known
\* identities ends the run by stagnation and not by the limit).
C11_StagnationEndsRun ==
  \A r \in Runs :
    (task[r].pc = "exit" /\ state.new_added < TARGET_NEW_LEADS /\ ~stop_requested)
      => state.loops <= MaxLoops

\* C12: when the 300 s of a run are over while its collection phase awaits, the
\* run ends without raising in the state "done" marked as timed out, the leads
\* committed so far stay in the store and the counters of the state stay as
\* they were.
C12_TimeoutKeepsPartialProgress ==
  [][\A r \in Runs :
       (task[r].pc \in Awaiting /\ task'[r].pc = "finished")
         => /\ state'.state = "done"
            /\ state'.current_step = "TimedOut"
            /\ state'.completed_at
            /\ leads' = leads
            /\ state'.new_added = state.new_added
            /\ state'.discovered = state.discovered
            /\ state'.duplicates_skipped = state.duplicates_skipped
            /\ state'.failed_ingestion = state.failed_ingestion
            /\ state'.loops = state.loops]_vars

\* C13: when the collection phase of a run raises, the run ends without raising
\* in the state "error" with the error recorded as its step, whether or not a
\* stop was requested during that run; and the run a later trigger starts
\* begins with all its counters reset.
C13_CrashEndsInError ==
  [][\A r \in Runs :
       /\ (task[r].pc = "init" /\ task'[r].pc = "finished")
            => /\ state'.state = "error"
               /\ state'.current_step = "Error"
               /\ state'.completed_at
       /\ (task[r].pc = "queued" /\ task'[r].pc = "init")
            => /\ state'.state = "running"
               /\ state'.new_added = 0
               /\ state'.discovered = 0
               /\ state'.duplicates_skipped = 0
               /\ state'.failed_ingestion = 0
               /\ state'.loops = 0]_vars

\* C14: the score of every stored lead is the value the scoring function gives
\* for the fields the lead holds now: no insert and no later commit leaves a
\* score that was set or left by anything else.
C14_ScoreFollowsFields ==
  \A i \in 1..Len(leads) : leads[i].score = score_lead_v2(leads[i]).score

\* C15: the scoring function decides the bucket in order: a lead with a domain
\* and a handle becomes READY_TO_DM and Qualified; one with a domain and no
\* handle NEEDS_ALT_OUTREACH and Qualified; any other MANUAL_CHECK and Enriched.
\* A scored lead has one of these three buckets with the status that goes with it.
C15_BucketOrder ==
  (call.fn = "score_lead_v2" /\ call.step = 1) =>
    /\ (Truthy(call.arg.domain) /\ Truthy(call.arg.twitter_handle))
         => (call.ret.bucket = "READY_TO_DM" /\ call.ret.status = "Qualified")
    /\ (Truthy(call.arg.domain) /\ Falsy(call.arg.twitter_handle))
         => (call.ret.bucket = "NEEDS_ALT_OUTREACH" /\ call.ret.status = "Qualified")
    /\ Falsy(call.arg.domain)
         => (call.ret.bucket = "MANUAL_CHECK" /\ call.ret.status = "Enriched")
    /\ <<call.ret.bucket, call.ret.status>> \in
         {<<"READY_TO_DM", "Qualified">>, <<"NEEDS_ALT_OUTREACH", "Qualified">>,
          <<"MANUAL_CHECK", "Enriched">>}

\* C15 witness: a lead with a domain and a handle has been scored, and its
\* email and telegram URL, which do not count for the bucket, are both there
C15_Witness ==
  /\ call.fn = "score_lead_v2" /\ call.step = 1
  /\ Truthy(call.arg.domain) /\ Truthy(call.arg.twitter_handle)
  /\ call.arg.email # "None" /\ call.arg.telegram_url # "None"
  /\ call.ret.bucket = "READY_TO_DM"

\* C16: the scoring function sets the score to 30 for a domain, plus 40 for a
\* handle, plus 20 for a telegram URL, plus 10 for an email, and to 100 at most:
\* the score of a scored lead is an integer from 0 to 100.
C16_PointSchedule ==
  (call.fn = "score_lead_v2" /\ call.step = 1) =>
    /\ call.ret.score =
         (IF Truthy(call.arg.domain) THEN 30 ELSE 0)
         + (IF Truthy(call.arg.twitter_handle) THEN 40 ELSE 0)
         + (IF call.arg.telegram_url # "None" THEN 20 ELSE 0)
         + (IF call.arg.email # "None" THEN 10 ELSE 0)
    /\ call.ret.score \in 0..100

\* C16 witness: a lead with all four fields has been scored and has the full score
C16_Witness ==
  /\ call.fn = "score_lead_v2" /\ call.step = 1
  /\ Truthy(call.arg.domain) /\ Truthy(call.arg.twitter_handle)
  /\ call.arg.email # "None" /\ call.arg.telegram_url # "None"
  /\ call.ret.score = 100

\* C17: a lead whose launch_date is to come or of the last 7 days is scored 10
\* points higher than the same lead without a date, and a lead with neither
\* domain nor handle whose launch_date is to come is put in the bucket
\* UPCOMING_WATCHLIST and not in MANUAL_CHECK.
C17_FreshnessBonus ==
  (call.fn = "score_lead_v2" /\ call.step = 1) =>
    /\ call.arg.launch_date \in {"future", "recent"}
         => \E sum \in {(IF Truthy(call.arg.domain) THEN 30 ELSE 0)
                        + (IF Truthy(call.arg.twitter_handle) THEN 40 ELSE 0)
                        + (IF call.arg.telegram_url # "None" THEN 20 ELSE 0)
                        + (IF call.arg.email # "None" THEN 10 ELSE 0) + 10} :
              call.ret.score = IF sum < 100 THEN sum ELSE 100
    /\ (Falsy(call.arg.domain) /\ Falsy(call.arg.twitter_handle)
        /\ call.arg.launch_date = "future")
         => call.ret.bucket = "UPCOMING_WATCHLIST"

\* C18: the domain and the handle normalisation of both ingestion paths are
\* idempotent: when normalising an input gives a value, normalising that value
\* again gives the same value.
C18_NormalizeIdempotent ==
  (call.fn \in NormFns /\ call.step = 2 /\ Truthy(call.ret)) => call.again = call.ret

\* C19: a candidate whose handle normalises to a reserved path segment of the
\* platform ("search", "home", "explore", "status", "intent", "i", "hashtag")
\* has no handle for the ingestion: no lead is stored under such a handle, and
\* a candidate with nothing else to identify it is rejected.
C19_ReservedHandleRejected ==
  /\ \A i \in 1..Len(leads) :
       leads[i].normalized_handle \notin
         {<<"search">>, <<"home">>, <<"explore">>, <<"status">>, <<"intent">>,
          <<"i">>, <<"hashtag">>}
  /\ (last.op = "process" /\ Falsy(last.raw.website)
      /\ EngineNormHandle(last.raw.twitter_handle) \in
           {<<"search">>, <<"home">>, <<"explore">>, <<"status">>, <<"intent">>,
            <<"i">>, <<"hashtag">>})
       => last.res = "rejected"

\* C20: an exception of the collector during a round never ends the run: no
\* step of a run that waits for its collector makes the state "error"; when
\* the collector raises, the state with all its counters and the leads table
\* are left as they were; and after the pause the run goes to its
\* next round exactly when the target is not reached, no stop is requested and
\* the loop limit is not exceeded, and leaves the loop otherwise (or is ended
\* by the timeout of the whole run).
C20_AdapterErrorIsSkipped ==
  [][\A r \in Runs :
       /\ (task[r].pc \in {"round", "retry"} /\ task'[r] # task[r]
           /\ state'.state = "error")
            => state.state = "error"
       /\ (task[r].pc \in {"round", "retry"} /\ task'[r].pc = "errsleep")
            => (state' = state /\ leads' = leads /\ lead_sources' = lead_sources)
       /\ (task[r].pc = "errsleep" /\ task'[r].pc # "errsleep")
            => /\ task'[r].pc \in {"round", "exit", "finished"}
               /\ task'[r].pc = "round"
                    => /\ state.new_added < TARGET_NEW_LEADS
                       /\ ~stop_requested
                       /\ state.loops <= MaxLoops
                       /\ state'.loops = state.loops + 1
               /\ task'[r].pc = "exit"
                    => \/ state.new_added >= TARGET_NEW_LEADS
                       \/ stop_requested
                       \/ state.loops > MaxLoops
               /\ state'.new_added = state.new_added
               /\ state'.duplicates_skipped = state.duplicates_skipped
               /\ state'.discovered = state.discovered]_vars

\* C20 witness: the collector has raised in a round after leads were added, the
\* run is still running with its counters, and waits before its next round
C20_Witness ==
  \E r \in Runs :
    /\ task[r].pc = "errsleep"
    /\ state.run_id = r
    /\ state.state = "running"
    /\ state.new_added > 0
    /\ state.new_added < TARGET_NEW_LEADS
    /\ state.loops <= MaxLoops

\* C21: when the processing of a candidate raises, the candidate is dropped:
\* it ends as a failed ingestion, which leaves the leads table as it was before
\* the candidate, adds one to failed_ingestion and nothing to new_added and
\* duplicates_skipped, and the run goes on with the next candidate. So a
\* candidate that is counted as new is one whose processing did not raise: the
\* row it leaves has the status its enrichment gave it.
C21_FailedCandidateIsDropped ==
  [][\A r \in Runs :
       (task[r].pc \in {"insert", "fetch", "search"} /\ task'[r].pc = "cand") =>
         /\ last'.res \in {"failed", "new"}
         /\ last'.res = "failed"
              => /\ leads' = leads
                 /\ state'.failed_ingestion = state.failed_ingestion + 1
                 /\ state'.new_added = state.new_added
                 /\ state'.duplicates_skipped = state.duplicates_skipped
                 /\ task'[r].idx = task[r].idx + 1
         /\ last'.res = "new"
              => /\ leads'[last'.lead].status # "New"
                 /\ state'.failed_ingestion = state.failed_ingestion]_vars

\* C22: in every state the normalized_domain of a stored lead, when it has one,
\* is a host in lower case without "www." (no scheme, no path), and its
\* normalized_handle, when it has one, is a handle in lower case without "@"
\* and without the prefix of a profile URL.
C22_StoredKeysAreCanonical ==
  \A i \in 1..Len(leads) :
    /\ Truthy(leads[i].normalized_domain)
         => /\ Lower(leads[i].normalized_domain) = leads[i].normalized_domain
            /\ \A k \in 1..Len(leads[i].normalized_domain) :
                 leads[i].normalized_domain[k] \notin
                   {"www.", "WWW.", "/", "http:", "https:"}
    /\ Truthy(leads[i].normalized_handle)
         => /\ Lower(leads[i].normalized_handle) = leads[i].normalized_handle
            /\ \A k \in 1..Len(leads[i].normalized_handle) :
                 leads[i].normalized_handle[k] \notin
                   {"@", "/", " ", "twitter.com", "x.com", "http:", "https:"}

\* C23: once the normalized_domain or the normalized_handle of a stored lead
\* has a value, no later step (a matching candidate, the enrichment, the
\* analyze endpoint, a status update) changes it to another value.
C23_IdentityKeysImmutable ==
  [][\A i \in 1..Len(leads) :
       /\ Truthy(leads[i].normalized_domain)
            => leads'[i].normalized_domain = leads[i].normalized_domain
       /\ Truthy(leads[i].normalized_handle)
            => leads'[i].normalized_handle = leads[i].normalized_handle]_vars

C25_RotateOnceOnStreak ==
  [][/\ (last'.op = "generate" /\ last'.res = "duplicate"
         /\ gen.duplicate_streak = max_consecutive_duplicates)
          => /\ gen'.duplicate_streak = 0
             /\ gen'.keyword_index =
                  (gen.keyword_index + 1) % KeywordsLen(gen.rotation_index)
     /\ (last.op = "generate" /\ last.res = "duplicate" /\ gen.pc = "cand"
         /\ gen.duplicate_streak = 0 /\ gen'.pc = "collect")
          => /\ gen'.keyword_index = gen.keyword_index
             /\ gen'.location_index = gen.location_index
             /\ gen'.rotation_index = gen.rotation_index
     /\ (last'.op = "generate" /\ last'.res = "new")
          => /\ gen'.duplicate_streak = 0
             /\ gen'.keyword_index = gen.keyword_index
             /\ gen'.location_index = gen.location_index
             /\ gen'.rotation_index = gen.rotation_index]_vars

\* C26: after every candidate that is added as a new lead, in the first pass of
\* a round and in its variant retry alike, the state shows the progress of the
\* new count: progress is 100 * new_added / target rounded down, and the step
\* is the scanning step.
C26_ProgressAfterEveryLead ==
  [][(last'.op = "process" /\ last'.res = "new")
       => /\ state'.progress = (state'.new_added * 100) \div TARGET_NEW_LEADS
          /\ state'.current_step = "Scanning"]_vars

\* C27: in every state new_added is at most the target of the run and progress
\* is within 0..100, however trigger requests, stop requests and the
\* processing of candidates interleave on the one engine instance.
C27_CountersWithinTarget ==
  /\ state.new_added <= TARGET_NEW_LEADS
  /\ state.progress \in 0..100

\* C28: when a run ends, new_added of its state is the number of rows of the
\* leads table that carry its run_id: the run has committed no lead that it
\* has not counted, also when the timeout ends it during an enrichment.
C28_CountedLeadsAreStored ==
  [][\A r \in Runs :
       (task[r].pc # "finished" /\ task'[r].pc = "finished" /\ state'.run_id = r)
         => state'.new_added =
              Cardinality({i \in 1..Len(leads') : leads'[i].run_id = r})]_vars

\* C29: whenever the state of the engine is "stopping" a run is in flight, and
\* the state then becomes "done"; a stop request that finds no run active
\* leaves no "stopping" state behind.
C29_StoppingMeansRunInFlight ==
  /\ [](state.state = "stopping" => \E r \in Runs : Active(r))
  /\ (state.state = "stopping") ~> (state.state = "done")

\* C30: when the enrichment of a newly inserted lead finds that another row
\* already holds the normalized domain or the normalized handle it computed,
\* the lead is stored after the commit of _process_lead with status
\* Disqualified, reject_reason "Duplicate Domain" or "Duplicate Handle", and
\* no bucket from the scoring function.
C30_DuplicateIsStoredDisqualified ==
  [][\A r \in Runs :
       (/\ task[r].pc \in {"insert", "fetch", "search"}
        /\ task'[r].pc = "cand"
        /\ last'.op = "process"
        /\ last'.res = "new")
       => LET id == last'.lead
              row == EngineLead(CurrentRaw(r), r)
              db == Append(leads, row)
              obj0 == PipelineStep0(row)
              Stored(why) == /\ leads'[id].status = "Disqualified"
                             /\ leads'[id].reject_reason = why
                             /\ leads'[id].bucket = "None"
              Verdict(o) == /\ o.status = "Disqualified"
                            /\ leads' = CommitUpdate(leads, id, task[r].loaded, o)
          IN  /\ (task[r].pc = "insert" /\ DuplicateDomain(db, id, obj0))
                   => Stored("Duplicate Domain")
              /\ (/\ task[r].pc = "insert"
                  /\ ~DuplicateDomain(db, id, obj0)
                  /\ PipelineStep3(db, id, obj0).status = "Disqualified")
                   => Stored("Duplicate Handle")
              /\ (/\ task[r].pc = "fetch"
                  /\ \E soc \in StoreSocials :
                       Verdict(PipelineStep3(leads, id, ApplySocials(task[r].obj, soc))))
                   => Stored("Duplicate Handle")
              /\ (/\ task[r].pc = "search"
                  /\ \E found \in StoreFound :
                       Verdict(PipelineStep3(leads, id, ApplySearch(task[r].obj, found))))
                   => Stored("Duplicate Handle")]_vars

====
